---- MODULE Spec2Model ----
(***************************************************************************)
(* thisless: classes as blank objects.                                     *)
(*                                                                         *)
(* The program works on JavaScript objects, so the state is a heap of      *)
(* objects (prototype link, ordered own keys, one property descriptor per  *)
(* key, and for a function the code it runs).  index.js (toBlankObj,       *)
(* thisless, selfless) and statetree.js (hackObjectTypePrototype) are      *)
(* translated as operators that take a world (heap and call logs) and      *)
(* give back the world after the call and the call's outcome: a returned   *)
(* value or a thrown error.                                                *)
(***************************************************************************)
EXTENDS Integers, Sequences, FiniteSets, TLC

VARIABLES
  heap,     \* Seq of objects; an object's identity is its index
  provLog,  \* one entry per invocation of a caller-supplied provider
  origLog,  \* one entry per invocation of the library's own actions / views
  hist,     \* one entry per top-level call made so far
  prev      \* the heap as it was before the latest top-level call

vars == <<heap, provLog, origLog, hist, prev>>

(***************************************************************************)
(* Bounds                                                                  *)
(***************************************************************************)
MaxFlatOps == 2
MaxBindOps == 3
MaxPatchOps == 3
MaxPlainOps == 2

(***************************************************************************)
(* JavaScript values                                                       *)
(***************************************************************************)
Undefined == [t |-> "undefined"]
Null == [t |-> "null"]
Num(n) == [t |-> "number", n |-> n]
Str(s) == [t |-> "string", s |-> s]
Ref(i) == [t |-> "ref", id |-> i]
\* a built-in function of the host, opaque to the program
Native(name) == [t |-> "native", name |-> name]
\* an error object of the host, or one a provider throws
Err(name) == [t |-> "error", name |-> name]
TypeError == Err("TypeError")

IsRef(v) == v.t = "ref"
Bool(b) == [t |-> "boolean", b |-> b]

\* the outcome of a call
Return(v) == [t |-> "return", v |-> v]
Throw(e) == [t |-> "throw", e |-> e]
\* a world after a call, with the call's outcome
Res(w, out) == [w |-> w, out |-> out]
Returned(r) == r.out.t = "return"

(***************************************************************************)
(* Objects and property descriptors                                        *)
(***************************************************************************)
NoCode == [op |-> "none"]

Obj(proto, keys, desc) ==
  [class |-> "Object", proto |-> proto, keys |-> keys, desc |-> desc,
   code |-> NoCode, ctor |-> FALSE]

DataDesc(v, w, e, c) ==
  [value |-> v, writable |-> w, enumerable |-> e, configurable |-> c]
AccDesc(g, s, e, c) ==
  [get |-> g, set |-> s, enumerable |-> e, configurable |-> c]

IsAccessorDescriptor(d) == "get" \in DOMAIN d \/ "set" \in DOMAIN d

Field(d, f, default) == IF f \in DOMAIN d THEN d[f] ELSE default

\* keys <<k1, .., kn>> with descriptors <<d1, .., dn>> as a key -> descriptor map
DescMap(keys, ds) ==
  [k \in {keys[i] : i \in DOMAIN keys} |->
     ds[CHOOSE i \in DOMAIN keys : keys[i] = k]]

NoDesc == [k \in {} |-> Undefined]

\* fixed objects of the host
ObjectPrototype == 1
FunctionPrototype == 2

ObjectPrototypeKeys ==
  <<"constructor", "__defineGetter__", "__defineSetter__", "hasOwnProperty",
    "__lookupGetter__", "__lookupSetter__", "isPrototypeOf",
    "propertyIsEnumerable", "toString", "valueOf", "__proto__",
    "toLocaleString">>

ObjectPrototypeObj ==
  Obj(Null, ObjectPrototypeKeys,
      [k \in {ObjectPrototypeKeys[i] : i \in DOMAIN ObjectPrototypeKeys} |->
         IF k = "__proto__"
         THEN AccDesc(Native("get __proto__"), Native("set __proto__"), FALSE, TRUE)
         ELSE DataDesc(Native(k), TRUE, FALSE, TRUE)])

FunctionPrototypeKeys ==
  <<"length", "name", "arguments", "caller", "constructor", "apply", "bind",
    "call", "toString">>

\* Function.prototype is itself a function: it takes anything and returns
\* undefined; its arguments and caller are accessors that throw
FunctionPrototypeObj ==
  [class |-> "Function", proto |-> Ref(ObjectPrototype),
   keys |-> FunctionPrototypeKeys,
   desc |-> [k \in {FunctionPrototypeKeys[i] : i \in DOMAIN FunctionPrototypeKeys} |->
               CASE k = "length" -> DataDesc(Num(0), FALSE, FALSE, TRUE)
                 [] k = "name" -> DataDesc(Str(""), FALSE, FALSE, TRUE)
                 [] k \in {"arguments", "caller"} ->
                      AccDesc(Native("ThrowTypeError"), Native("ThrowTypeError"),
                              FALSE, TRUE)
                 [] k = "constructor" ->
                      DataDesc(Native("Function"), TRUE, FALSE, TRUE)
                 [] OTHER -> DataDesc(Native(k), TRUE, FALSE, TRUE)],
   code |-> [op |-> "return", v |-> Undefined], ctor |-> FALSE]

\* a function object: a method, getter or arrow function has no prototype
\* property and cannot be constructed
Fn(name, arity, code) ==
  [class |-> "Function", proto |-> Ref(FunctionPrototype),
   keys |-> <<"length", "name">>,
   desc |-> DescMap(<<"length", "name">>,
                    <<DataDesc(Num(arity), FALSE, FALSE, TRUE),
                      DataDesc(Str(name), FALSE, FALSE, TRUE)>>),
   code |-> code, ctor |-> FALSE]

\* a class: a constructor whose prototype property is fixed
ClassFn(name, protoId) ==
  [class |-> "Function", proto |-> Ref(FunctionPrototype),
   keys |-> <<"length", "name", "prototype">>,
   desc |-> DescMap(<<"length", "name", "prototype">>,
                    <<DataDesc(Num(0), FALSE, FALSE, TRUE),
                      DataDesc(Str(name), FALSE, FALSE, TRUE),
                      DataDesc(Ref(protoId), FALSE, FALSE, FALSE)>>),
   code |-> [op |-> "class"], ctor |-> TRUE]

typeOf(h, v) ==
  CASE v.t = "ref" -> IF h[v.id].class = "Function" THEN "function" ELSE "object"
    [] v.t = "native" -> "function"
    [] v.t = "null" -> "object"
    [] v.t = "error" -> "object"
    [] OTHER -> v.t

\* Object.getPrototypeOf of a value whose typeof is object
getPrototypeOf(h, v) ==
  CASE v.t = "ref" -> h[v.id].proto
    [] OTHER -> Native("Error.prototype")

(***************************************************************************)
(* index.js                                                                *)
(***************************************************************************)
isUndefined(x) == x = Undefined

\* mutant: an object without a prototype is not taken as plain
isPlainObject_ObjectPrototypeOnly(h, value) ==
  IF value = Null \/ typeOf(h, value) # "object"
  THEN FALSE
  ELSE getPrototypeOf(h, value) = Ref(ObjectPrototype)

isPlainObject(h, value) ==
  IF value = Null \/ typeOf(h, value) # "object"
  THEN FALSE
  ELSE LET proto == getPrototypeOf(h, value)
       IN  proto = Ref(ObjectPrototype) \/ proto = Null

NATIVE_PROPS_NON_ENUMERABLE ==
  <<"__defineGetter__", "__defineSetter__", "__proto__", "__lookupGetter__",
    "__lookupSetter__", "hasOwnProperty", "propertyIsEnumerable",
    "toLocaleString", "isPrototypeOf", "toString", "constructor", "prototype",
    "valueOf", "arguments", "caller", "callee">>

includes(seq, x) == \E i \in DOMAIN seq : seq[i] = x

nameIsNotNative(name) == ~includes(NATIVE_PROPS_NON_ENUMERABLE, name)

\* Object.getOwnPropertyNames: the own string keys, enumerable or not, in
\* order; a number has none.  toBlankObj is never given a string here.
getOwnPropertyNames(h, obj) ==
  CASE obj.t = "ref" -> h[obj.id].keys
    [] OTHER -> <<>>

\* mutant: the native names are not filtered out
getOwnPrototypeNames_Unfiltered(h, obj) == getOwnPropertyNames(h, obj)

getOwnPrototypeNames(h, obj) ==
  SelectSeq(getOwnPropertyNames(h, obj), nameIsNotNative)

\* mutant: only the value or the getter is carried over, as in
\* { enumerable, value: obj[key] }
getOwnPropertyDescriptor_ValueOnly(h, obj, key) ==
  LET d == h[obj.id].desc[key]
  IN  IF IsAccessorDescriptor(d)
      THEN [get |-> d.get, enumerable |-> d.enumerable]
      ELSE [value |-> d.value, enumerable |-> d.enumerable]

\* Object.getOwnPropertyDescriptor: a new descriptor record
getOwnPropertyDescriptor(h, obj, key) == h[obj.id].desc[key]

\* a descriptor with the fields it leaves out at their defaults
CompleteDescriptor(d) ==
  IF IsAccessorDescriptor(d)
  THEN AccDesc(Field(d, "get", Undefined), Field(d, "set", Undefined),
               Field(d, "enumerable", FALSE), Field(d, "configurable", FALSE))
  ELSE DataDesc(Field(d, "value", Undefined), Field(d, "writable", FALSE),
                Field(d, "enumerable", FALSE), Field(d, "configurable", FALSE))

\* the current descriptor cur changed by the fields d gives
MergeDescriptor(cur, d) ==
  IF IsAccessorDescriptor(d) = IsAccessorDescriptor(cur)
  THEN [f \in DOMAIN cur |-> Field(d, f, cur[f])]
  ELSE CompleteDescriptor(
         [f \in DOMAIN d \cup {"enumerable", "configurable"} |->
            Field(d, f, cur[f])])

\* Object.defineProperty(o, key, d) on object id: the heap after it and
\* whether it threw
defineProperty(h, id, key, d) ==
  LET o == h[id]
  IN  IF ~includes(o.keys, key)
      THEN [h |-> [h EXCEPT ![id] =
                     [o EXCEPT !.keys = Append(o.keys, key),
                               !.desc = [k \in DOMAIN o.desc \cup {key} |->
                                           IF k = key THEN CompleteDescriptor(d)
                                           ELSE o.desc[k]]]],
            out |-> Return(Ref(id))]
      ELSE LET cur == o.desc[key]
               new == MergeDescriptor(cur, d)
               allowed ==
                 \/ cur.configurable
                 \/ new = cur
                 \/ /\ ~IsAccessorDescriptor(cur) /\ cur.writable
                    /\ new = [cur EXCEPT !.value = new.value,
                                         !.writable = new.writable]
           IN  IF allowed
               THEN [h |-> [h EXCEPT ![id].desc[key] = new],
                     out |-> Return(Ref(id))]
               ELSE [h |-> h, out |-> Throw(TypeError)]

\* once key is defined on blankObj (r), forEach goes on with the rest
RECURSIVE forEachKey(_, _, _, _)
forEachRest(r, obj, blankObj, rest) ==
  IF r.out.t = "throw" THEN r ELSE forEachKey(r.h, obj, blankObj, rest)

\* getOwnPrototypeNames(obj).forEach(key => ...) of toBlankObj: descriptor is
\* read from obj, its enumerable is set, and it is defined on blankObj
forEachKey(h, obj, blankObj, names) ==
  IF names = <<>>
  THEN [h |-> h, out |-> Return(Undefined)]
  ELSE forEachRest(
         defineProperty(h, blankObj, Head(names),
                        [getOwnPropertyDescriptor(h, obj, Head(names))
                           EXCEPT !.enumerable = TRUE]),
         obj, blankObj, Tail(names))

\* mutant: {} instead of Object.create(null)
BlankObject_Literal == Obj(Ref(ObjectPrototype), <<>>, NoDesc)

\* Object.create(null)
BlankObject == Obj(Null, <<>>, NoDesc)

\* return blankObj, r being the heap after the forEach
ReturnBlankObj(w, blankObj, r) ==
  Res([w EXCEPT !.heap = r.h],
      IF r.out.t = "throw" THEN r.out ELSE Return(Ref(blankObj)))

\* mutant: the descriptors are defined on obj itself, which is returned
toBlankObj_InPlace(w, obj) ==
  IF ~IsRef(obj)
  THEN Res(w, Throw(TypeError))
  ELSE ReturnBlankObj(w, obj.id,
         forEachKey(w.heap, obj, obj.id, getOwnPrototypeNames(w.heap, obj)))

toBlankObj(w, obj) ==
  LET h1 == Append(w.heap, BlankObject)
      blankObj == Len(w.heap) + 1
  IN  IF obj = Undefined \/ obj = Null
      THEN \* Object.getOwnPropertyNames(undefined) is a TypeError
           Res([w EXCEPT !.heap = h1], Throw(TypeError))
      ELSE ReturnBlankObj(w, blankObj,
             forEachKey(h1, obj, blankObj, getOwnPrototypeNames(h1, obj)))

(***************************************************************************)
(* Property reads and calls                                                *)
(***************************************************************************)
NoProperty == [none |-> TRUE]

\* the descriptor of key on the object or along its prototype chain
RECURSIVE Lookup(_, _, _)
Lookup(h, v, key) ==
  IF v.t # "ref" THEN NoProperty
  ELSE IF includes(h[v.id].keys, key) THEN h[v.id].desc[key]
  ELSE Lookup(h, h[v.id].proto, key)

\* key in v
HasProperty(h, v, key) == Lookup(h, v, key) # NoProperty

Arg(args, i) == IF i <= Len(args) THEN args[i] ELSE Undefined

Alloc(w, objs) == [w EXCEPT !.heap = w.heap \o objs]

\* function (..) {..}: an ordinary function comes with a prototype object
\* and, not being in strict mode, with own arguments and caller
OrdinaryFn(name, arity, code, fnId) ==
  <<[class |-> "Function", proto |-> Ref(FunctionPrototype),
     keys |-> <<"length", "name", "arguments", "caller", "prototype">>,
     desc |-> DescMap(<<"length", "name", "arguments", "caller", "prototype">>,
                      <<DataDesc(Num(arity), FALSE, FALSE, TRUE),
                        DataDesc(Str(name), FALSE, FALSE, TRUE),
                        DataDesc(Null, FALSE, FALSE, FALSE),
                        DataDesc(Null, FALSE, FALSE, FALSE),
                        DataDesc(Ref(fnId + 1), TRUE, FALSE, FALSE)>>),
     code |-> code, ctor |-> TRUE],
    Obj(Ref(ObjectPrototype), <<"constructor">>,
        DescMap(<<"constructor">>, <<DataDesc(Ref(fnId), TRUE, FALSE, TRUE)>>))>>

\* get aboot() { return 100 } and moose() { return self.igloo }
AbootGetter == Fn("get aboot", 0, [op |-> "return", v |-> Num(100)])
MooseMethod(self) == Fn("moose", 0, [op |-> "member", obj |-> self, key |-> "igloo"])

\* class { get aboot() {..}  moose() {..} } closing over self: the class, its
\* prototype, the getter and the method
AbootMooseClass(name, self, classId) ==
  <<ClassFn(name, classId + 1),
    Obj(Ref(ObjectPrototype), <<"constructor", "aboot", "moose">>,
        DescMap(<<"constructor", "aboot", "moose">>,
                <<DataDesc(Ref(classId), TRUE, FALSE, TRUE),
                  AccDesc(Ref(classId + 2), Undefined, FALSE, TRUE),
                  DataDesc(Ref(classId + 3), TRUE, FALSE, TRUE)>>)),
    AbootGetter,
    MooseMethod(self)>>

\* { get aboot() {..}, moose() {..} } closing over self: the record, the
\* getter and the method
AbootMooseRecord(self, recId) ==
  <<Obj(Ref(ObjectPrototype), <<"aboot", "moose">>,
        DescMap(<<"aboot", "moose">>,
                <<AccDesc(Ref(recId + 1), Undefined, TRUE, TRUE),
                  DataDesc(Ref(recId + 2), TRUE, TRUE, TRUE)>>)),
    AbootGetter,
    MooseMethod(self)>>

ProviderOps ==
  {"getThisLessed", "getSelflessed", "getES6Obj", "getReturnedInitializedObj",
   "throwing", "returning"}

\* the body of a caller-supplied provider called with self
CallProvider(w, code, self) ==
  LET next == Len(w.heap) + 1
  IN  CASE code.op = "getThisLessed" ->
             Res(Alloc(w, AbootMooseClass("ThisLessEd", code.selfthis, next)),
                 Return(Ref(next)))
        [] code.op = "getSelflessed" ->
             Res(Alloc(w, AbootMooseClass("", self, next)), Return(Ref(next)))
        [] code.op \in {"getES6Obj", "getReturnedInitializedObj"} ->
             Res(Alloc(w, AbootMooseRecord(self, next)), Return(Ref(next)))
        [] code.op = "throwing" -> Res(w, Throw(code.e))
        [] code.op = "returning" -> Res(w, Return(code.v))

\* the provider f was given self and ended as r: the invocation is logged
Logged(f, self, r) ==
  Res([r.w EXCEPT !.provLog =
         Append(@, [fn |-> f, arg |-> self, out |-> r.out])],
      r.out)

LoggedProvider(w, f, code, self) == Logged(f, self, CallProvider(w, code, self))

RECURSIVE Call(_, _, _, _)

\* the value of a property found as descriptor d on v or its chain
GetValue(w, v, d) ==
  IF d = NoProperty THEN Res(w, Return(Undefined))
  ELSE IF ~IsAccessorDescriptor(d) THEN Res(w, Return(d.value))
  ELSE IF d.get = Undefined THEN Res(w, Return(Undefined))
  ELSE Call(w, d.get, v, <<>>)

\* v[key]
Get(w, v, key) ==
  IF v = Undefined \/ v = Null
  THEN Res(w, Throw(TypeError))
  ELSE GetValue(w, v, Lookup(w.heap, v, key))

\* toBlankObj of what the read r gave, in the world r left; a throw goes on
\* to the caller
toBlankObjOf(r) == IF Returned(r) THEN toBlankObj(r.w, r.out.v) ELSE r

\* mutant: a plain record is flattened into a copy too
thisless_AlwaysFlatten(w, _class) ==
  IF ~isPlainObject(w.heap, _class)
  THEN toBlankObjOf(Get(w, _class, "prototype"))
  ELSE toBlankObj(w, _class)

\* mutant: the class itself is flattened, not its prototype
thisless_OfClass(w, _class) ==
  IF ~isPlainObject(w.heap, _class)
  THEN toBlankObj(w, _class)
  ELSE Res(w, Return(_class))

thisless(w, _class) ==
  IF ~isPlainObject(w.heap, _class)
  THEN toBlankObjOf(Get(w, _class, "prototype"))
  ELSE Res(w, Return(_class))

\* thisless of what the call r returned, in the world r left; a throw goes on
\* to the caller
thislessOf(r) == IF Returned(r) THEN thisless(r.w, r.out.v) ELSE r

\* mutant: the curried branch returns what fn gave, without thisless
selflessCurry_NoThisless(w, fn, self) == Call(w, fn, Undefined, <<self>>)

\* the body of function selflessCurry($$self):
\* const _class = fn($$self); return thisless(_class)
selflessCurry(w, fn, self) ==
  thislessOf(Call(w, fn, Undefined, <<self>>))

\* an error caught and thrown again inside another
Rethrown(r) == IF Returned(r) THEN r ELSE Res(r.w, Throw(Err("Wrapped")))

\* mutant: the currying test is $self === undefined, not arguments.length
selfless_UndefinedCurries(w, args) ==
  IF Arg(args, 2) = Undefined
  THEN Res(Alloc(w, OrdinaryFn("selflessCurry", 1,
                               [op |-> "selflessCurry", fn |-> Arg(args, 1)],
                               Len(w.heap) + 1)),
           Return(Ref(Len(w.heap) + 1)))
  ELSE thislessOf(Call(w, Arg(args, 1), Undefined, <<Arg(args, 2)>>))

\* mutant: the provider's error is caught and wrapped
selfless_Wrapping(w, args) ==
  IF Len(args) = 1
  THEN Res(Alloc(w, OrdinaryFn("selflessCurry", 1,
                               [op |-> "selflessCurry", fn |-> args[1]],
                               Len(w.heap) + 1)),
           Return(Ref(Len(w.heap) + 1)))
  ELSE thislessOf(Rethrown(Call(w, Arg(args, 1), Undefined, <<Arg(args, 2)>>)))

\* selfless called with the arguments args: arguments.length is Len(args)
selfless(w, args) ==
  IF Len(args) = 1
  THEN Res(Alloc(w, OrdinaryFn("selflessCurry", 1,
                               [op |-> "selflessCurry", fn |-> args[1]],
                               Len(w.heap) + 1)),
           Return(Ref(Len(w.heap) + 1)))
  ELSE thislessOf(Call(w, Arg(args, 1), Undefined, <<Arg(args, 2)>>))

(***************************************************************************)
(* The state tree library, as far as statetree.js uses it: a model builder *)
(* holds its initializers; actions(fn) and views(fn) give a new builder    *)
(* with fn added; create() makes an instance and runs them on it.          *)
(***************************************************************************)
List(items) == [t |-> "list", items |-> items]

Builder(proto, initializers) ==
  Obj(proto, <<"name", "initializers">>,
      DescMap(<<"name", "initializers">>,
              <<DataDesc(Str("AnonymousModel"), TRUE, TRUE, TRUE),
                DataDesc(List(initializers), TRUE, TRUE, TRUE)>>))

\* the library's own actions(fn) / views(fn), logged
OriginalEntry(w, entry, this, args) ==
  LET fn == Arg(args, 1)
      b == Len(w.heap) + 1
      old == w.heap[this.id]
  IN  Res([heap |-> Append(w.heap,
                           Builder(old.proto,
                                   Append(old.desc["initializers"].value.items, fn))),
           provLog |-> w.provLog,
           origLog |-> Append(w.origLog,
                              [entry |-> entry, this |-> this, arg |-> fn,
                               ret |-> Ref(b)])],
          Return(Ref(b)))

RECURSIVE RunInitializers(_, _, _)
RunRest(r, rest, self) ==
  IF Returned(r) THEN RunInitializers(r.w, rest, self) ELSE r

RunInitializers(w, items, self) ==
  IF items = <<>> THEN Res(w, Return(self))
  ELSE RunRest(Call(w, Head(items), Undefined, <<self>>), Tail(items), self)

\* the library's create(): a new instance, given to every initializer
OriginalCreate(w, this) ==
  RunInitializers(Alloc(w, <<Obj(Ref(ObjectPrototype), <<>>, NoDesc)>>),
                  w.heap[this.id].desc["initializers"].value.items,
                  Ref(Len(w.heap) + 1))

(***************************************************************************)
(* statetree.js                                                            *)
(***************************************************************************)
\* o[key] = v where key is an own writable data property of o or is new
Put(h, id, key, v) ==
  IF includes(h[id].keys, key)
  THEN IF ~IsAccessorDescriptor(h[id].desc[key]) /\ h[id].desc[key].writable
       THEN [h EXCEPT ![id].desc[key].value = v]
       ELSE h
  ELSE defineProperty(h, id, key, DataDesc(v, TRUE, TRUE, TRUE)).h

\* return original.call(this, selflessArgs), s being selfless(..) as it ended
Forward(s, original, this) ==
  IF Returned(s) THEN Call(s.w, original, this, <<s.out.v>>) ELSE s

\* mutant: the provider is forwarded as it came, without selfless
patchedEntry_Raw(w, original, this, args) ==
  Call(w, original, this, <<Arg(args, 1)>>)

\* ObjectTypeProto.actions = function(actionArgs) {..}, and the same for views:
\* original is the entry point read before the patch
patchedEntry(w, original, this, args) ==
  Forward(selfless(w, <<Arg(args, 1)>>), original, this)

\* isUndefined(data) ? this.create() : this.create(data), create being
\* this.create as read
CreateState(create, this, data) ==
  IF ~Returned(create) THEN create
  ELSE IF isUndefined(data)
       THEN Call(create.w, create.out.v, this, <<>>)
       ELSE Call(create.w, create.out.v, this, <<data>>)

\* return { model, state, store }
StoreBundle(this, state) ==
  IF ~Returned(state) THEN state
  ELSE Res(Alloc(state.w,
                 <<Obj(Ref(ObjectPrototype), <<"model", "state", "store">>,
                       DescMap(<<"model", "state", "store">>,
                               <<DataDesc(this, TRUE, TRUE, TRUE),
                                 DataDesc(state.out.v, TRUE, TRUE, TRUE),
                                 DataDesc(state.out.v, TRUE, TRUE, TRUE)>>))>>),
           Return(Ref(Len(state.w.heap) + 1)))

\* ObjectTypeProto.createStore = function(data = undefined) {..}
createStore(w, this, args) ==
  StoreBundle(this, CreateState(Get(w, this, "create"), this, Arg(args, 1)))

\* the three assignments to ObjectTypeProto, the new functions being at a,
\* a + 2 and a + 4
PatchPrototype(w, ObjectTypeProto, actions, views, a) ==
  [w EXCEPT !.heap =
     Put(Put(Put(w.heap
                   \o OrdinaryFn("", 1, [op |-> "patchedActions",
                                         original |-> actions], a)
                   \o OrdinaryFn("", 1, [op |-> "patchedViews",
                                         original |-> views], a + 2)
                   \o OrdinaryFn("", 0, [op |-> "createStore"], a + 4),
                 ObjectTypeProto.id, "actions", Ref(a)),
             ObjectTypeProto.id, "views", Ref(a + 2)),
         ObjectTypeProto.id, "createStore", Ref(a + 4))]

\* mutant: no 'createStore' in x test, every application patches again
hackObjectTypePrototype_NoGuard(w, x) ==
  Res(PatchPrototype(w, getPrototypeOf(w.heap, x),
                     Get(w, getPrototypeOf(w.heap, x), "actions").out.v,
                     Get(w, getPrototypeOf(w.heap, x), "views").out.v,
                     Len(w.heap) + 1),
      Return(Undefined))

hackObjectTypePrototype(w, x) ==
  IF HasProperty(w.heap, x, "createStore")
  THEN Res(w, Return(Undefined))
  ELSE Res(PatchPrototype(w, getPrototypeOf(w.heap, x),
                          Get(w, getPrototypeOf(w.heap, x), "actions").out.v,
                          Get(w, getPrototypeOf(w.heap, x), "views").out.v,
                          Len(w.heap) + 1),
           Return(Undefined))

(***************************************************************************)
(* f.call(this, ...args)                                                   *)
(***************************************************************************)
Call(w, f, this, args) ==
  IF f.t # "ref" \/ w.heap[f.id].class # "Function"
  THEN Res(w, Throw(TypeError))
  ELSE LET code == w.heap[f.id].code
       IN  CASE code.op = "return" -> Res(w, Return(code.v))
             [] code.op = "member" -> Get(w, code.obj, code.key)
             [] code.op = "class" -> Res(w, Throw(TypeError))
             [] code.op \in ProviderOps ->
                  LoggedProvider(w, f, code, Arg(args, 1))
             [] code.op = "selflessCurry" ->
                  selflessCurry(w, code.fn, Arg(args, 1))
             [] code.op \in {"patchedActions", "patchedViews"} ->
                  patchedEntry(w, code.original, this, args)
             [] code.op = "createStore" -> createStore(w, this, args)
             [] code.op = "ObjectType.actions" ->
                  OriginalEntry(w, "actions", this, args)
             [] code.op = "ObjectType.views" ->
                  OriginalEntry(w, "views", this, args)
             [] code.op = "ObjectType.create" -> OriginalCreate(w, this)

\* the instance new f() gives: the object a function body returns, or else
\* the new object
ConstructResult(r, instance) ==
  IF Returned(r) /\ r.out.v.t # "ref" THEN Res(r.w, Return(instance)) ELSE r

\* new f(): a TypeError unless f is a constructor; otherwise a new object
\* whose prototype is f.prototype, on which the body of a function runs
Construct(w, f) ==
  IF f.t # "ref" \/ ~w.heap[f.id].ctor
  THEN Res(w, Throw(TypeError))
  ELSE LET prototype == Lookup(w.heap, f, "prototype").value
           instance == Ref(Len(w.heap) + 1)
           w1 == Alloc(w, <<Obj(IF prototype.t = "ref" THEN prototype
                                ELSE Ref(ObjectPrototype), <<>>, NoDesc)>>)
       IN  IF w.heap[f.id].code.op = "class" THEN Res(w1, Return(instance))
           ELSE ConstructResult(Call(w1, f, instance, <<>>), instance)

(***************************************************************************)
(* Top-level calls                                                         *)
(***************************************************************************)
World == [heap |-> heap, provLog |-> provLog, origLog |-> origLog]

\* the call op(args) ended as r: the world moves on and the call is recorded
Record(op, args, r) ==
  /\ heap' = r.w.heap
  /\ provLog' = r.w.provLog
  /\ origLog' = r.w.origLog
  /\ hist' = Append(hist,
                    [op |-> op, args |-> args, out |-> r.out,
                     \* the provider invocations and the forwards to the
                     \* library's entry points made during the call
                     invoked |-> SubSeq(r.w.provLog, Len(provLog) + 1,
                                        Len(r.w.provLog)),
                     forwarded |-> SubSeq(r.w.origLog, Len(origLog) + 1,
                                          Len(r.w.origLog))])
  /\ prev' = heap

HostHeap == <<ObjectPrototypeObj, FunctionPrototypeObj>>

(***************************************************************************)
(* SpecFlat: toBlankObj, thisless and new on objects a caller authored.    *)
(* The heap starts with a getter, a method closing over $selfthis, a       *)
(* setter, and one subject: a class, a record literal, a prototype-less    *)
(* object or an object derived from another, whose members are any choice  *)
(* of NamePool with descriptors of DescPool.                               *)
(***************************************************************************)
GetterId == 3
MethodId == 4
SelfThisId == 5
SetterId == 6
SubjectId == 7

SelfThis ==
  Obj(Ref(ObjectPrototype), <<"igloo">>,
      DescMap(<<"igloo">>, <<DataDesc(Str("igloomoose"), TRUE, TRUE, TRUE)>>))

NamePool == <<"aboot", "toString", "moose">>

DescPool ==
  <<DataDesc(Ref(MethodId), TRUE, FALSE, TRUE),
    AccDesc(Ref(GetterId), Undefined, FALSE, TRUE),
    DataDesc(Num(100), FALSE, TRUE, FALSE),
    AccDesc(Ref(GetterId), Ref(SetterId), TRUE, FALSE)>>

Shapes == {"class", "record", "bare", "derived"}

\* the names of NamePool that pick keeps, in order, and their descriptors
Picked(pick) ==
  SelectSeq([i \in 1..Len(NamePool) |-> i], LAMBDA i : pick[i] # 0)
MemberKeys(pick) ==
  [j \in 1..Len(Picked(pick)) |-> NamePool[Picked(pick)[j]]]
MemberDescs(pick) ==
  [j \in 1..Len(Picked(pick)) |-> DescPool[pick[Picked(pick)[j]]]]

Subject(shape, pick) ==
  LET keys == MemberKeys(pick)
      ds == MemberDescs(pick)
  IN  CASE shape = "class" ->
             <<ClassFn("Subject", SubjectId + 1),
               Obj(Ref(ObjectPrototype), <<"constructor">> \o keys,
                   DescMap(<<"constructor">> \o keys,
                           <<DataDesc(Ref(SubjectId), TRUE, FALSE, TRUE)>> \o ds))>>
        [] shape = "record" ->
             <<Obj(Ref(ObjectPrototype), keys, DescMap(keys, ds))>>
        [] shape = "bare" ->
             <<Obj(Null, keys, DescMap(keys, ds))>>
        [] shape = "derived" ->
             <<Obj(Ref(ObjectPrototype), <<"inherited">>,
                   DescMap(<<"inherited">>,
                           <<DataDesc(Num(100), TRUE, TRUE, TRUE)>>)),
               Obj(Ref(SubjectId), keys, DescMap(keys, ds))>>

FlatHeap(shape, pick) ==
  HostHeap \o <<AbootGetter, MooseMethod(Ref(SelfThisId)), SelfThis,
                Fn("set aboot", 1, [op |-> "return", v |-> Undefined])>>
           \o Subject(shape, pick)

InitFlat ==
  /\ \E shape \in Shapes :
       \E pick \in [1..Len(NamePool) -> 0..Len(DescPool)] :
         heap = FlatHeap(shape, pick)
  /\ provLog = <<>>
  /\ origLog = <<>>
  /\ hist = <<>>
  /\ prev = heap

\* what a caller may pass: the subject, what earlier calls returned,
\* undefined and a number
FlatArgs == {Ref(i) : i \in SubjectId..Len(heap)} \cup {Undefined, Num(100)}

ToBlankObj(v) ==
  /\ Len(hist) < MaxFlatOps
  /\ Record("toBlankObj", <<v>>, toBlankObj(World, v))

Thisless(v) ==
  /\ Len(hist) < MaxFlatOps
  /\ Record("thisless", <<v>>, thisless(World, v))

New(v) ==
  /\ Len(hist) < MaxFlatOps
  /\ Record("new", <<v>>, Construct(World, v))

NextFlat ==
  \/ \E v \in FlatArgs : ToBlankObj(v)
  \/ \E v \in FlatArgs : Thisless(v)
  \/ \E v \in FlatArgs : New(v)

SpecFlat == InitFlat /\ [][NextFlat]_vars

(***************************************************************************)
(* Claims on SpecFlat                                                      *)
(***************************************************************************)
Last == hist[Len(hist)]
LastIs(op) == hist # <<>> /\ Last.op = op
LastReturned(op) == LastIs(op) /\ Last.out.t = "return"

KeySet(o) == {o.keys[i] : i \in DOMAIN o.keys}
NativeNames ==
  {NATIVE_PROPS_NON_ENUMERABLE[i] : i \in DOMAIN NATIVE_PROPS_NON_ENUMERABLE}
\* the own property names of a value before the latest call
OwnNamesBefore(v) == IF IsRef(v) THEN KeySet(prev[v.id]) ELSE {}

\* C1: the own property names of toBlankObj(obj) are the own property names
\* of obj minus the names of NATIVE_PROPS_NON_ENUMERABLE, each of them once and
\* enumerable; no name of NATIVE_PROPS_NON_ENUMERABLE is an own property of the
\* result.
C1_FlatNames ==
  LastReturned("toBlankObj") =>
    LET obj == Last.args[1]
        result == heap[Last.out.v.id]
    IN  /\ KeySet(result) = OwnNamesBefore(obj) \ NativeNames
        /\ Len(result.keys) = Cardinality(KeySet(result))
        /\ DOMAIN result.desc = KeySet(result)
        /\ \A k \in KeySet(result) : result.desc[k].enumerable
        /\ KeySet(result) \cap NativeNames = {}

\* toBlankObj has flattened an object that defines a native name itself and
\* a non-enumerable name that is kept
C1_Witness ==
  /\ LastReturned("toBlankObj")
  /\ IsRef(Last.args[1])
  /\ "toString" \in OwnNamesBefore(Last.args[1])
  /\ \E k \in KeySet(heap[Last.out.v.id]) :
       ~prev[Last.args[1].id].desc[k].enumerable

\* C2: every descriptor toBlankObj copies has the fields of the descriptor on
\* obj with the same value, getter, setter, writable and configurable, and
\* enumerable true.
C2_DescriptorsKept ==
  LastReturned("toBlankObj") =>
    LET obj == Last.args[1]
        result == heap[Last.out.v.id]
    IN  \A k \in KeySet(result) :
          LET from == prev[obj.id].desc[k]
              to == result.desc[k]
          IN  /\ DOMAIN to = DOMAIN from
              /\ \A f \in DOMAIN from \ {"enumerable"} : to[f] = from[f]
              /\ to.enumerable = TRUE

\* toBlankObj has copied a non-writable, non-configurable value and an
\* accessor that has a setter
C2_Witness ==
  /\ LastReturned("toBlankObj")
  /\ \E k, a \in KeySet(heap[Last.out.v.id]) :
       LET result == heap[Last.out.v.id]
       IN  /\ "value" \in DOMAIN result.desc[k]
           /\ ~result.desc[k].writable /\ ~result.desc[k].configurable
           /\ "set" \in DOMAIN result.desc[a]
           /\ result.desc[a].set # Undefined
           /\ result.desc[a].get = prev[Last.args[1].id].desc[a].get

\* C3: thisless of a plain object returns that object itself and changes no
\* object.
C3_PlainIsIdentity ==
  (LastIs("thisless") /\ isPlainObject(prev, Last.args[1])) =>
    /\ Last.out = Return(Last.args[1])
    /\ heap = prev

\* thisless was given a record literal with members
C3_Witness ==
  /\ LastIs("thisless")
  /\ isPlainObject(prev, Last.args[1])
  /\ prev[Last.args[1].id].proto = Ref(ObjectPrototype)
  /\ prev[Last.args[1].id].keys # <<>>

\* the latest call is new r(), r being what the call before it returned
NewOnResult ==
  /\ Len(hist) >= 2
  /\ Last.op = "new"
  /\ hist[Len(hist) - 1].op \in {"toBlankObj", "thisless"}
  /\ hist[Len(hist) - 1].out = Return(Last.args[1])

\* C4 as stated: whatever thisless or toBlankObj returns has no prototype, and
\* new on it is a type error.
C4_Original ==
  /\ (LastReturned("toBlankObj") \/ LastReturned("thisless")) =>
       heap[Last.out.v.id].proto = Null
  /\ NewOnResult => Last.out = Throw(TypeError)

\* C4 amended: what toBlankObj returns, and what thisless returns for an input
\* that is not a plain object, has no prototype; for a plain object thisless
\* returns the input with the prototype it has; and new on what either returns
\* is a type error.
C4_NoInstantiation ==
  /\ LastReturned("toBlankObj") => heap[Last.out.v.id].proto = Null
  /\ (LastReturned("thisless") /\ ~isPlainObject(prev, Last.args[1])) =>
       heap[Last.out.v.id].proto = Null
  /\ (LastReturned("thisless") /\ isPlainObject(prev, Last.args[1])) =>
       heap[Last.out.v.id].proto = prev[Last.args[1].id].proto
  /\ (LastReturned("toBlankObj") \/ LastReturned("thisless")) =>
       Construct(World, Last.out.v).out = Throw(TypeError)
  /\ NewOnResult => Last.out = Throw(TypeError)

\* new was tried on the flat record thisless made of a class
C4_Witness ==
  /\ NewOnResult
  /\ typeOf(heap, hist[Len(hist) - 1].args[1]) = "function"
  /\ heap[Last.args[1].id].proto = Null
  /\ heap[Last.args[1].id].keys # <<>>

\* C12: toBlankObj(obj) changes no object that existed before the call, so
\* obj keeps its own property names and, for each, its descriptor with the
\* enumerable flag it had; and the record returned did not exist before the
\* call: it is not obj and not what any earlier call returned.
C12_SourceUntouched ==
  LastReturned("toBlankObj") =>
    /\ SubSeq(heap, 1, Len(prev)) = prev
    /\ IsRef(Last.args[1]) =>
         /\ heap[Last.args[1].id].keys = prev[Last.args[1].id].keys
         /\ heap[Last.args[1].id].desc = prev[Last.args[1].id].desc
    /\ Last.out.v.id \notin DOMAIN prev
    /\ Last.out.v # Last.args[1]
    /\ \A i \in 1..(Len(hist) - 1) :
         hist[i].out.t = "return" => hist[i].out.v # Last.out.v

\* toBlankObj was called twice on one object that has a non-enumerable
\* member: the two records differ, the member is enumerable on the second
\* and still non-enumerable on the object
C12_Witness ==
  /\ Len(hist) = 2
  /\ hist[1].op = "toBlankObj"
  /\ LastReturned("toBlankObj")
  /\ hist[1].args = Last.args
  /\ hist[1].out.t = "return"
  /\ hist[1].out.v # Last.out.v
  /\ \E k \in KeySet(heap[Last.out.v.id]) :
       /\ heap[Last.out.v.id].desc[k].enumerable
       /\ ~heap[Last.args[1].id].desc[k].enumerable

(***************************************************************************)
(* SpecBind: selfless in both call shapes, and thisless of what a          *)
(* provider returned, with the providers of the test setup, one that       *)
(* throws and one that returns undefined.                                  *)
(***************************************************************************)
ProviderError == Err("ProviderError")

\* an arrow function of arity parameters
Provider(name, arity, code) == Fn(name, arity, code)

BindSelfThis == 3
BindProviders == 4..9

BindHeap ==
  HostHeap \o
  <<SelfThis,
    Provider("getThisLessed", 0, [op |-> "getThisLessed", selfthis |-> Ref(BindSelfThis)]),
    Provider("getSelflessed", 1, [op |-> "getSelflessed"]),
    Provider("getES6Obj", 1, [op |-> "getES6Obj"]),
    Provider("getReturnedInitializedObj", 1, [op |-> "getReturnedInitializedObj"]),
    Provider("throwing", 1, [op |-> "throwing", e |-> ProviderError]),
    Provider("returning", 1, [op |-> "returning", v |-> Undefined])>>

InitBind ==
  /\ heap = BindHeap
  /\ provLog = <<>>
  /\ origLog = <<>>
  /\ hist = <<>>
  /\ prev = heap

Contexts == {Ref(BindSelfThis), Undefined}

\* the functions selfless(fn) has returned so far
Curried ==
  {Ref(i) : i \in {j \in DOMAIN heap : heap[j].code.op = "selflessCurry"}}

\* selfless(p, c)
SelflessEager(p, c) ==
  /\ Len(hist) < MaxBindOps
  /\ Record("selfless", <<p, c>>, selfless(World, <<p, c>>))

\* selfless(p)
SelflessCurried(p) ==
  /\ Len(hist) < MaxBindOps
  /\ Record("selfless", <<p>>, selfless(World, <<p>>))

\* g(c), g being what selfless(p) returned
CallCurried(g, c) ==
  /\ Len(hist) < MaxBindOps
  /\ Record("selflessCurry", <<g, c>>, Call(World, g, Undefined, <<c>>))

\* thisless(p(c)), as in thisless(getThisLessed())
ThislessOfCall(p, c) ==
  /\ Len(hist) < MaxBindOps
  /\ Record("thislessOfCall", <<p, c>>,
            thislessOf(Call(World, p, Undefined, <<c>>)))

NextBind ==
  \/ \E i \in BindProviders, c \in Contexts : SelflessEager(Ref(i), c)
  \/ \E i \in BindProviders : SelflessCurried(Ref(i))
  \/ \E g \in Curried, c \in Contexts : CallCurried(g, c)
  \/ \E i \in BindProviders, c \in Contexts : ThislessOfCall(Ref(i), c)

SpecBind == InitBind /\ [][NextBind]_vars

(***************************************************************************)
(* Claims on SpecBind                                                      *)
(***************************************************************************)
Eager(e) == e.op = "selfless" /\ Len(e.args) = 2
OneArgument(e) == e.op = "selfless" /\ Len(e.args) = 1
CurriedCall(e) == e.op = "selflessCurry"

\* the provider a call resolves: the one selfless was given
ProviderOf(e) ==
  IF CurriedCall(e) THEN heap[e.args[1].id].code.fn ELSE e.args[1]
ProviderName(e) == heap[ProviderOf(e).id].code.op

\* Object.keys
EnumerableKeys(o) == SelectSeq(o.keys, LAMBDA k : o.desc[k].enumerable)

\* a descriptor with the functions it holds replaced by their bodies and
\* what they close over
Deep(d) ==
  [f \in DOMAIN d |->
     IF f \in {"value", "get", "set"} /\ IsRef(d[f])
     THEN heap[d[f].id].code
     ELSE d[f]]

\* two values of the same kind; two objects have the same prototype, the same
\* own keys in the same order and, key by key, the same descriptor, a function
\* in it being the same code over the same captured values
SameShape(u, v) ==
  /\ typeOf(heap, u) = typeOf(heap, v)
  /\ IF IsRef(u) /\ IsRef(v)
     THEN /\ heap[u.id].proto = heap[v.id].proto
          /\ heap[u.id].keys = heap[v.id].keys
          /\ \A k \in KeySet(heap[u.id]) :
               Deep(heap[u.id].desc[k]) = Deep(heap[v.id].desc[k])
     ELSE u = v

Equivalent(a, b) ==
  /\ a.t = b.t
  /\ IF a.t = "throw" THEN a = b ELSE SameShape(a.v, b.v)

\* C5: selfless(p, c) and selfless(p)(c) end the same way: with the same
\* error, or with two results that have the same prototype, the same own keys
\* and, key by key, the same descriptor.
C5_CurryingEquivalence ==
  \A i, j \in DOMAIN hist :
    (/\ Eager(hist[i]) /\ CurriedCall(hist[j])
     /\ ProviderOf(hist[j]) = hist[i].args[1]
     /\ hist[j].args[2] = hist[i].args[2])
    => Equivalent(hist[i].out, hist[j].out)

\* both call shapes were used on the class provider with the same context and
\* gave two different flat records
C5_Witness ==
  \E i, j \in DOMAIN hist :
    /\ Eager(hist[i]) /\ CurriedCall(hist[j])
    /\ ProviderOf(hist[j]) = hist[i].args[1]
    /\ hist[j].args[2] = hist[i].args[2]
    /\ ProviderName(hist[i]) = "getSelflessed"
    /\ hist[i].out.t = "return" /\ hist[j].out.t = "return"
    /\ hist[i].out.v # hist[j].out.v
    /\ EnumerableKeys(heap[hist[j].out.v.id]) = <<"aboot", "moose">>

\* how the record of a call was authored: a class given to thisless, a
\* class-returning provider given to selfless with c, a record literal, a
\* function returning a record literal
Way(e) ==
  CASE e.op = "thislessOfCall" /\ ProviderName(e) \in {"getThisLessed", "getSelflessed"}
         -> "class"
    [] Eager(e) /\ ProviderName(e) = "getSelflessed" -> "selfless"
    [] e.op = "thislessOfCall" /\ ProviderName(e) = "getES6Obj" -> "literal"
    [] e.op = "thislessOfCall" /\ ProviderName(e) = "getReturnedInitializedObj"
         -> "returned"
    [] OTHER -> "none"

Authored(e) == Way(e) # "none" /\ e.out.t = "return"

\* the context the members of the record close over
ContextOf(e) ==
  IF ProviderName(e) = "getThisLessed"
  THEN heap[ProviderOf(e).id].code.selfthis
  ELSE e.args[2]

\* record.moose()
CallMoose(r, record) ==
  IF Returned(r) THEN Call(r.w, r.out.v, record, <<>>) ELSE r

\* the fields of the descriptor Object.getOwnPropertyDescriptor gives for
\* key on record
FieldsOf(record, key) == DOMAIN getOwnPropertyDescriptor(heap, record, key)

\* C6: however the record is authored, aboot reads 100 on it, moose() gives
\* what c.igloo gives, and on any two of the records the descriptor of aboot
\* has the same set of fields, and so has the descriptor of moose.
C6_CrossShape ==
  /\ \A i \in DOMAIN hist :
       Authored(hist[i]) =>
         /\ Get(World, hist[i].out.v, "aboot").out = Return(Num(100))
         /\ CallMoose(Get(World, hist[i].out.v, "moose"), hist[i].out.v).out
              = Get(World, ContextOf(hist[i]), "igloo").out
  /\ \A i, j \in DOMAIN hist :
       (Authored(hist[i]) /\ Authored(hist[j])) =>
         /\ FieldsOf(hist[i].out.v, "moose") = FieldsOf(hist[j].out.v, "moose")
         /\ FieldsOf(hist[i].out.v, "aboot") = FieldsOf(hist[j].out.v, "aboot")

\* a class given to thisless, a provider given to selfless and a record
\* literal were all made with $selfthis, where moose() gives 'igloomoose'
C6_Witness ==
  \E i, j, k \in DOMAIN hist :
    /\ Authored(hist[i]) /\ Way(hist[i]) = "class"
    /\ Authored(hist[j]) /\ Way(hist[j]) = "selfless"
    /\ Authored(hist[k]) /\ Way(hist[k]) \in {"literal", "returned"}
    /\ ContextOf(hist[j]) = Ref(BindSelfThis)
    /\ ContextOf(hist[k]) = Ref(BindSelfThis)
    /\ CallMoose(Get(World, hist[j].out.v, "moose"), hist[j].out.v).out
         = Return(Str("igloomoose"))
    /\ heap[hist[i].out.v.id].proto = Null
    /\ heap[hist[k].out.v.id].proto = Ref(ObjectPrototype)

\* C7: selfless(provider) invokes provider zero times and returns a function
\* g; g(context) invokes provider exactly once with that context and returns
\* its own result; selfless(provider, context) invokes provider exactly once
\* with context, undefined included.
C7_InvocationCount ==
  /\ (hist # <<>> /\ OneArgument(Last)) =>
       /\ Last.invoked = <<>>
       /\ Last.out.t = "return"
       /\ typeOf(heap, Last.out.v) = "function"
       /\ Last.out.v.id > Len(prev)
       /\ heap[Last.out.v.id].code = [op |-> "selflessCurry", fn |-> Last.args[1]]
  /\ (hist # <<>> /\ (Eager(Last) \/ CurriedCall(Last))) =>
       /\ Len(Last.invoked) = 1
       /\ Last.invoked[1].fn = ProviderOf(Last)
       /\ Last.invoked[1].arg = Last.args[2]
       /\ Last.out.t = "return" => Last.out.v.id > Len(prev)
  /\ Len(provLog) = Cardinality({i \in DOMAIN hist : ~OneArgument(hist[i])})

\* one g was called twice, with different contexts, and a third call passed
\* undefined as the second argument
C7_Witness ==
  /\ Len(hist) = 3
  /\ OneArgument(hist[1])
  /\ CurriedCall(hist[2]) /\ hist[2].args[1] = hist[1].out.v
  /\ CurriedCall(hist[3]) /\ hist[3].args[1] = hist[1].out.v
  /\ hist[2].args[2] # hist[3].args[2]
  /\ hist[2].out.t = "return" /\ hist[3].out.t = "return"
  /\ hist[2].out.v # hist[3].out.v
  /\ Len(provLog) = 2

\* C8: when provider throws e, selfless(provider, context) and
\* selfless(provider)(context) end by throwing that same e, after one
\* invocation of provider, and no record is made.
C8_ErrorsPropagate ==
  (/\ hist # <<>>
   /\ Eager(Last) \/ CurriedCall(Last)
   /\ ProviderName(Last) = "throwing")
  => /\ Last.out = Throw(heap[ProviderOf(Last).id].code.e)
     /\ Len(Last.invoked) = 1
     /\ Last.invoked[1].out = Last.out
     /\ heap = prev

\* the throwing provider was used in both call shapes
C8_Witness ==
  /\ Len(hist) = 3
  /\ Eager(hist[1]) /\ ProviderName(hist[1]) = "throwing"
  /\ hist[1].out = Throw(ProviderError)
  /\ OneArgument(hist[2])
  /\ CurriedCall(hist[3]) /\ ProviderName(hist[3]) = "throwing"
  /\ hist[3].out = Throw(ProviderError)

(***************************************************************************)
(* SpecPatch: hackObjectTypePrototype on models of one builder type, the   *)
(* model's actions(provider) and views(provider), and the library calling  *)
(* a registered function with self.                                        *)
(***************************************************************************)
PatchSelf == 3
PatchProviders == 4..5
ObjectTypeProtoId == 6
OriginalActions == 7
OriginalViews == 8
OriginalCreateId == 9

ObjectTypeProtoObj ==
  Obj(Ref(ObjectPrototype), <<"constructor", "create", "actions", "views">>,
      DescMap(<<"constructor", "create", "actions", "views">>,
              <<DataDesc(Native("ObjectType"), TRUE, FALSE, TRUE),
                DataDesc(Ref(OriginalCreateId), TRUE, FALSE, TRUE),
                DataDesc(Ref(OriginalActions), TRUE, FALSE, TRUE),
                DataDesc(Ref(OriginalViews), TRUE, FALSE, TRUE)>>))

\* two models made by types.model(..)
PatchHeap ==
  HostHeap \o
  <<SelfThis,
    Provider("getSelflessed", 1, [op |-> "getSelflessed"]),
    Provider("getES6Obj", 1, [op |-> "getES6Obj"]),
    ObjectTypeProtoObj,
    Fn("actions", 1, [op |-> "ObjectType.actions"]),
    Fn("views", 1, [op |-> "ObjectType.views"]),
    Fn("create", 0, [op |-> "ObjectType.create"]),
    Builder(Ref(ObjectTypeProtoId), <<>>),
    Builder(Ref(ObjectTypeProtoId), <<>>)>>

InitPatch ==
  /\ heap = PatchHeap
  /\ provLog = <<>>
  /\ origLog = <<>>
  /\ hist = <<>>
  /\ prev = heap

\* the models there are: the two of the start and those actions / views gave
Models ==
  {Ref(i) : i \in {j \in DOMAIN heap : heap[j].proto = Ref(ObjectTypeProtoId)}}

\* what createStore may be given as data: nothing, or a snapshot
Snapshots == {Undefined, Ref(PatchSelf)}

\* f.call(this, ..args), f being this[key] as read (r)
Invoke(r, this, args) ==
  IF Returned(r) THEN Call(r.w, r.out.v, this, args) ELSE r

\* this[key](..args)
CallMethod(w, this, key, args) == Invoke(Get(w, this, key), this, args)

Hack(x) ==
  /\ Len(hist) < MaxPatchOps
  /\ Record("hackObjectTypePrototype", <<x>>, hackObjectTypePrototype(World, x))

\* x.actions(p)
CallActions(x, p) ==
  /\ Len(hist) < MaxPatchOps
  /\ Record("actions", <<x, p>>, CallMethod(World, x, "actions", <<p>>))

\* x.views(p)
CallViews(x, p) ==
  /\ Len(hist) < MaxPatchOps
  /\ Record("views", <<x, p>>, CallMethod(World, x, "views", <<p>>))

\* x.createStore(data)
CallCreateStore(x, data) ==
  /\ Len(hist) < MaxPatchOps
  /\ Record("createStore", <<x, data>>,
            CallMethod(World, x, "createStore", <<data>>))

\* the library calls the i-th function it was given with self
FrameworkCall(i, self) ==
  /\ Len(hist) < MaxPatchOps
  /\ Record("initializer", <<origLog[i].arg, self>>,
            Call(World, origLog[i].arg, Undefined, <<self>>))

NextPatch ==
  \/ \E x \in Models : Hack(x)
  \/ \E x \in Models, i \in PatchProviders : CallActions(x, Ref(i))
  \/ \E x \in Models, i \in PatchProviders : CallViews(x, Ref(i))
  \/ \E x \in Models, data \in Snapshots : CallCreateStore(x, data)
  \/ \E i \in DOMAIN origLog : FrameworkCall(i, Ref(PatchSelf))

SpecPatch == InitPatch /\ [][NextPatch]_vars

(***************************************************************************)
(* Claims on SpecPatch                                                     *)
(***************************************************************************)
\* the calls of hackObjectTypePrototype among the first n calls
HacksWithin(n) ==
  {i \in 1..n : hist[i].op = "hackObjectTypePrototype"}

\* the function now at ObjectTypeProto[key]
EntryPoint(key) == heap[heap[ObjectTypeProtoId].desc[key].value.id]

\* the latest call is x.actions(p) or x.views(p), made after the patch
PatchedEntryCall ==
  /\ hist # <<>>
  /\ Last.op \in {"actions", "views"}
  /\ HacksWithin(Len(hist) - 1) # {}

\* C9: however many times hackObjectTypePrototype was applied, actions and
\* views are wrapped once around the library's own entry points; an
\* application after the first changes nothing; and one call of the patched
\* actions or views applies selfless to the provider once and invokes the
\* original once.
C9_PatchedOnce ==
  /\ HacksWithin(Len(hist)) # {} =>
       /\ EntryPoint("actions").code =
            [op |-> "patchedActions", original |-> Ref(OriginalActions)]
       /\ EntryPoint("views").code =
            [op |-> "patchedViews", original |-> Ref(OriginalViews)]
       /\ HasProperty(heap, Ref(ObjectTypeProtoId), "createStore")
  /\ (LastIs("hackObjectTypePrototype") /\ HacksWithin(Len(hist) - 1) # {}) =>
       heap = prev
  /\ PatchedEntryCall =>
       /\ Len(Last.forwarded) = 1
       /\ heap[Last.forwarded[1].arg.id].code =
            [op |-> "selflessCurry", fn |-> Last.args[2]]

\* the patch was applied to two models, and then actions was called
C9_Witness ==
  /\ Len(hist) >= 3
  /\ hist[1].op = "hackObjectTypePrototype"
  /\ hist[2].op = "hackObjectTypePrototype"
  /\ hist[1].args # hist[2].args
  /\ hist[3].op = "actions"
  /\ Len(hist[3].forwarded) = 1
  /\ Len(origLog) = 1

\* the latest call is the library calling, with self, a function that a
\* patched actions or views forwarded
ForwardedCall ==
  /\ LastIs("initializer")
  /\ IsRef(Last.args[1])
  /\ heap[Last.args[1].id].code.op = "selflessCurry"

\* what the provider returned in the latest call
Provided == Last.invoked[1].out.v

\* record is the flattening of the prototype of class
FlatRecordOf(record, class) ==
  LET from == heap[heap[class.id].desc["prototype"].value.id]
      to == heap[record.id]
  IN  /\ to.proto = Null
      /\ KeySet(to) = KeySet(from) \ NativeNames
      /\ \A k \in KeySet(to) :
           /\ to.desc[k].enumerable
           /\ [to.desc[k] EXCEPT !.enumerable = from.desc[k].enumerable]
                = from.desc[k]

\* C10: after the patch, actions(provider) and views(provider) call the
\* original entry point once, with the same receiver and with
\* selfless(provider) in its one-argument form, without calling provider, and
\* return what the original returns; the function forwarded, called with
\* self, calls provider(self) and gives thisless of it: a flat record for a
\* class, the provider's own record for a plain record.
C10_ForwardsSelfless ==
  /\ PatchedEntryCall =>
       /\ Len(Last.forwarded) = 1
       /\ Last.forwarded[1].entry = Last.op
       /\ Last.forwarded[1].this = Last.args[1]
       /\ heap[Last.forwarded[1].arg.id].code =
            [op |-> "selflessCurry", fn |-> Last.args[2]]
       /\ Last.forwarded[1].arg.id > Len(prev)
       /\ Last.out = Return(Last.forwarded[1].ret)
       /\ Last.invoked = <<>>
  /\ ForwardedCall =>
       /\ Len(Last.invoked) = 1
       /\ Last.invoked[1].fn = heap[Last.args[1].id].code.fn
       /\ Last.invoked[1].arg = Last.args[2]
       /\ Last.out.t = "return"
       /\ IF isPlainObject(heap, Provided)
          THEN Last.out.v = Provided
          ELSE /\ Last.out.v.id > Len(prev)
               /\ FlatRecordOf(Last.out.v, Provided)

\* after the patch a class-returning provider was given to actions, and the
\* library called the forwarded function with self
C10_Witness ==
  /\ Len(hist) = 3
  /\ hist[1].op = "hackObjectTypePrototype"
  /\ hist[2].op = "actions"
  /\ heap[hist[2].args[2].id].code.op = "getSelflessed"
  /\ ForwardedCall
  /\ Last.args[1] = hist[2].forwarded[1].arg
  /\ Last.args[2] = Ref(PatchSelf)
  /\ EnumerableKeys(heap[Last.out.v.id]) = <<"aboot", "moose">>

(***************************************************************************)
(* SpecPlain: isPlainObject on the heaps of SpecFlat, given any object of  *)
(* the heap (Object.prototype, Function.prototype, the functions, the      *)
(* class, the record, the prototype-less and the derived object), null and *)
(* the primitives.                                                         *)
(***************************************************************************)
PlainArgs ==
  {Ref(i) : i \in DOMAIN heap}
    \cup {Undefined, Null, Num(100), Str("igloomoose"), Bool(TRUE)}

IsPlainObject(v) ==
  /\ Len(hist) < MaxPlainOps
  /\ Record("isPlainObject", <<v>>,
            Res(World, Return(Bool(isPlainObject(heap, v)))))

NextPlain == \E v \in PlainArgs : IsPlainObject(v)

SpecPlain == InitFlat /\ [][NextPlain]_vars

(***************************************************************************)
(* Claims on SpecPlain                                                     *)
(***************************************************************************)
\* value is an object that is not a function
IsObjectValue(value) == IsRef(value) /\ heap[value.id].class = "Object"

\* C11: isPlainObject(value) is true exactly when value is not null, is an
\* object and not a function, and its direct prototype is Object.prototype or
\* null; a primitive, null, a function or class, and an object with another
\* prototype give false.
C11_PlainIff ==
  \A i \in DOMAIN hist :
    hist[i].op = "isPlainObject" =>
      LET value == hist[i].args[1]
      IN  /\ hist[i].out =
               Return(Bool(/\ IsObjectValue(value)
                           /\ heap[value.id].proto
                                \in {Ref(ObjectPrototype), Null}))
          /\ ~IsRef(value) => hist[i].out = Return(Bool(FALSE))
          /\ (IsRef(value) /\ heap[value.id].class = "Function") =>
               hist[i].out = Return(Bool(FALSE))
          /\ (IsRef(value)
                /\ heap[value.id].proto \notin {Ref(ObjectPrototype), Null}) =>
               hist[i].out = Return(Bool(FALSE))

\* isPlainObject gave false for an object derived from another object and
\* true for an object without a prototype that has members
C11_Witness ==
  /\ Len(hist) = 2
  /\ IsObjectValue(hist[1].args[1])
  /\ heap[hist[1].args[1].id].proto = Ref(SubjectId)
  /\ hist[1].out = Return(Bool(FALSE))
  /\ IsObjectValue(hist[2].args[1])
  /\ heap[hist[2].args[1].id].proto = Null
  /\ hist[2].out = Return(Bool(TRUE))

====
